---- MODULE Spec2Model ----
(***************************************************************************)
(* The admin action registry (src/services/actionRegistry.ts) and the      *)
(* speech-synthesis adapter (src/unnamed/part_000) as state machines.      *)
(*                                                                         *)
(* The two stores are the realtime tree (users/<id>, system_settings,      *)
(* redeem_codes/<code>) and the document store (users collection).  Every  *)
(* asynchronous action is cut at its awaits: one model action per await,   *)
(* so that concurrent invocations interleave exactly where the code can    *)
(* be suspended.                                                           *)
(*                                                                         *)
(* JavaScript objects are functions from the keys they own to values; a    *)
(* Partial<User> patch is [vals |-> the keys given a value, undef |-> the  *)
(* keys given the value undefined].  Template strings are tuples of their  *)
(* parts.                                                                  *)
(***************************************************************************)
EXTENDS Integers, Sequences, FiniteSets, TLC

\* ------------------------------------------------------------------ bounds
NumProcs == 2            \* concurrent invocations in flight
MaxClock == 2            \* ticks the wall clock may advance past ClockStart
TicksPerDay == 2         \* clock resolution: ticks in a day
MaxCount == 2            \* the largest count handed to generateGiftCodes

Procs == 1..NumProcs
UserIds == {"u1", "u2"}
\* The clock starts on 31 January, so that a month ends within MaxClock ticks.
ClockStart == 30 * TicksPerDay

VARIABLES
    rtdbUsers,      \* realtime store, users/<id>: a function from the ids present to records
    fsUsers,        \* document store, users collection: the ids that have a document
    clock,          \* the wall clock, in ticks
    pc,             \* per invocation: the await it is suspended at
    act,            \* per invocation: the registry action that was called
    userId,         \* per invocation: the userId argument
    arg,            \* per invocation: the other arguments and locals
    updates,        \* per invocation: the patch handed to updateUser
    user,           \* per invocation: the snapshot read by grantSubscription / sendInboxMessage
    currentUser,    \* per invocation: the snapshot read by updateUser
    res,            \* per invocation: the settled result, [ok, msg]
    seen,           \* history: who wrote users/<userId[p]> since p's first read
    rtdbSettings,   \* realtime store, system_settings: the object, NoObj when there is none
    settings,       \* per invocation: what getSettings returned, NoObj for null
    newSettings,    \* per invocation: the object handed to saveSystemSettings
    redeemCodes,    \* realtime store, redeem_codes/<code>: a function from the codes present to records
    adminCodes,     \* localStorage, nst_admin_codes: the list of gift codes
    supported,      \* 'speechSynthesis' in window
    voiceList,      \* what speechSynthesis.getVoices() returns
    queue,          \* the browser's utterance queue; its head is being spoken
    lastCall,       \* history: the latest of speakText / stopSpeech
    promise,        \* per getAvailableVoices call: "none", "pending" or "resolved"
    value,          \* per getAvailableVoices call: the list the promise resolved with
    onvoiceschanged,\* the call whose handler is speechSynthesis.onvoiceschanged, 0 for none
    timers          \* the calls whose fallback timer is pending

storeVars == <<rtdbUsers, fsUsers, rtdbSettings, redeemCodes, adminCodes>>
frameVars == <<clock, pc, act, userId, arg, updates, user, currentUser, res, seen, settings, newSettings>>
speechVars == <<queue, lastCall>>
voiceVars == <<supported, voiceList, promise, value, onvoiceschanged, timers>>
vars == <<storeVars, frameVars, speechVars, voiceVars>>
\* What the actions on users leave alone.
notUserVars == <<rtdbSettings, redeemCodes, adminCodes, settings, newSettings, speechVars, voiceVars>>

\* ------------------------------------------------------------ JS objects
NoObj == [k \in {} |-> TRUE]                 \* {} (and the null snapshot)
NoPatch == [vals |-> NoObj, undef |-> {}]
Patch(v) == [vals |-> v, undef |-> {}]
NoRes == [ok |-> FALSE, msg |-> <<>>]
Ok(m) == [ok |-> TRUE, msg |-> m]
Err(m) == [ok |-> FALSE, msg |-> m]

Has(o, k) == k \in DOMAIN o
SameField(a, b, k) == /\ Has(a, k) <=> Has(b, k)
                      /\ Has(a, k) => a[k] = b[k]
\* o.k || []
ListOf(o, k) == IF Has(o, k) THEN o[k] ELSE <<>>

\* { ...currentUser, ...updates }: the keys of updates win; a key that updates
\* sets to undefined is owned by the result with the value undefined.
Spread(cur, upd) ==
    [vals  |-> upd.vals @@ [k \in DOMAIN cur \ upd.undef |-> cur[k]],
     undef |-> upd.undef]

\* ------------------------------------------------------------- the clock
\* Date.prototype.toISOString: the instant as a string.
ToISOString(t) == <<"iso", t>>

\* A later reading of the clock in the same synchronous block.
ReadAfter(t) == {t2 \in t..(ClockStart + MaxClock) : t2 <= t + 1}

MonthDays == <<31, 28, 31, 30, 31, 30, 31, 31, 30, 31, 30, 31>>
RECURSIVE MonthStartFrom(_, _, _)
\* The first day of the month that day d lies in; month m starts on day s <= d.
MonthStartFrom(d, m, s) ==
    IF d < s + MonthDays[m] THEN s
    ELSE MonthStartFrom(d, (m % 12) + 1, s + MonthDays[m])
DayOf(t) == t \div TicksPerDay
MonthStart(t) == MonthStartFrom(DayOf(t), 1, 0)
\* Date.prototype.getDate: the day of the month, from 1.
GetDate(t) == DayOf(t) - MonthStart(t) + 1
\* Date.prototype.setDate(n): day n of t's month, running over into later
\* months; the time of day is kept.
SetDate(t, n) == (MonthStart(t) + n - 1) * TicksPerDay + (t % TicksPerDay)

\* ------------------------------------------------------------ the stores
\* saveUserToLive(user) is handed the record alone, so the record's own id
\* names the place it is written to.  Keys whose value is undefined are not
\* stored.
SaveUserToLive(store, updatedUser) ==
    (updatedUser.vals["id"] :> updatedUser.vals) @@ store

\* remove(ref(rtdb, `users/${userId}`))
RemoveUser(store, id) == [k \in DOMAIN store \ {id} |-> store[k]]

\* ------------------------------------------------- invocations (promises)
\* The invocation has passed its first read of users/<userId> (deleteUser: has begun).
AfterFirstRead(p) ==
    \/ pc[p] = "updateUser_save"
    \/ pc[p] = "updateUser_get" /\ act[p] \in {"grantSubscription", "sendInboxMessage"}
    \/ pc[p] \in {"deleteUser_deleteDoc", "deleteUser_remove"}

\* History kept for the concurrency claims: r has just written users/<k>.
NoteWrite(r, k) ==
    seen' = [p \in Procs |->
                IF p # r /\ AfterFirstRead(p) /\ userId[p] = k
                THEN seen[p] \cup {r} ELSE seen[p]]

Throw(p, m) ==
    /\ pc' = [pc EXCEPT ![p] = "done"]
    /\ res' = [res EXCEPT ![p] = Err(m)]

\* An action of the registry that is updateUser with a fixed patch.
CallUpdateUserWith(p, name, id, upd) ==
    /\ pc[p] = "idle"
    /\ act' = [act EXCEPT ![p] = name]
    /\ userId' = [userId EXCEPT ![p] = id]
    /\ updates' = [updates EXCEPT ![p] = upd]
    /\ pc' = [pc EXCEPT ![p] = "updateUser_get"]
    /\ UNCHANGED notUserVars
    /\ UNCHANGED <<rtdbUsers, fsUsers, clock, arg, user, currentUser, res, seen>>

\* The patches the model hands to updateUser directly.
Patches ==
    {Patch([credits |-> 5]), Patch([name |-> "Zed"]),
     Patch([credits |-> 9, isLocked |-> TRUE])}
    \cup {Patch([id |-> i]) : i \in UserIds}

UpdateUser(p) ==
    /\ pc[p] = "idle"
    /\ \E id \in UserIds, upd \in Patches : CallUpdateUserWith(p, "updateUser", id, upd)

BanUser(p) ==
    /\ pc[p] = "idle"
    /\ \E id \in UserIds : CallUpdateUserWith(p, "banUser", id, Patch([isLocked |-> TRUE]))

UnbanUser(p) ==
    /\ pc[p] = "idle"
    /\ \E id \in UserIds : CallUpdateUserWith(p, "unbanUser", id, Patch([isLocked |-> FALSE]))

PromoteSubAdmin(p) ==
    /\ pc[p] = "idle"
    /\ \E id \in UserIds :
        CallUpdateUserWith(p, "promoteSubAdmin", id,
            Patch([role |-> "SUB_ADMIN", isSubAdmin |-> TRUE, permissions |-> <<"MANAGE_SUBS">>]))

DemoteSubAdmin(p) ==
    /\ pc[p] = "idle"
    /\ \E id \in UserIds :
        CallUpdateUserWith(p, "demoteSubAdmin", id,
            Patch([role |-> "STUDENT", isSubAdmin |-> FALSE, permissions |-> <<>>]))

\* updateUser without its existence check: a missing record is created from the patch.
UpdateUserGet_Upserts(p) ==
    /\ pc[p] = "updateUser_get"
    /\ IF userId[p] \in DOMAIN rtdbUsers
       THEN /\ currentUser' = [currentUser EXCEPT ![p] = rtdbUsers[userId[p]]]
            /\ pc' = [pc EXCEPT ![p] = "updateUser_save"]
            /\ UNCHANGED <<res, rtdbUsers>>
       ELSE /\ rtdbUsers' = (userId[p] :> updates[p].vals) @@ rtdbUsers
            /\ pc' = [pc EXCEPT ![p] = "done"]
            /\ res' = [res EXCEPT ![p] = Ok(<<"User ", userId[p], " updated.">>)]
            /\ currentUser' = currentUser
    /\ UNCHANGED notUserVars
    /\ UNCHANGED <<fsUsers, clock, act, userId, arg, updates, user, seen>>

\* updateUser, lines 72-76: the get resolves; a missing record throws, and the
\* catch rethrows with the wrapped message.
UpdateUserGet(p) ==
    /\ pc[p] = "updateUser_get"
    /\ IF userId[p] \in DOMAIN rtdbUsers
       THEN /\ currentUser' = [currentUser EXCEPT ![p] = rtdbUsers[userId[p]]]
            /\ pc' = [pc EXCEPT ![p] = "updateUser_save"]
            /\ res' = res
       ELSE /\ Throw(p, <<"Failed to update user: ", "User not found">>)
            /\ currentUser' = currentUser
    /\ UNCHANGED notUserVars
    /\ UNCHANGED <<rtdbUsers, fsUsers, clock, act, userId, arg, updates, user, seen>>

\* updateUser, lines 72 and 80-81: the get rejects.
UpdateUserGetRejects(p) ==
    /\ pc[p] = "updateUser_get"
    /\ Throw(p, <<"Failed to update user: ", "get failed">>)
    /\ UNCHANGED notUserVars
    /\ UNCHANGED <<rtdbUsers, fsUsers, clock, act, userId, arg, updates, user, currentUser, seen>>

\* What the caller of updateUser returns once updateUser has returned.
Returned(p) ==
    IF act[p] = "sendInboxMessage"
    THEN Ok(<<"Message sent to ", IF Has(user[p], "name") THEN user[p]["name"] ELSE "undefined", ".">>)
    ELSE Ok(<<"User ", userId[p], " updated.">>)

\* updateUser, lines 76-79: the merged record is saved and the call returns.
UpdateUserSave(p) ==
    /\ pc[p] = "updateUser_save"
    /\ LET updatedUser == Spread(currentUser[p], updates[p]) IN
        /\ rtdbUsers' = SaveUserToLive(rtdbUsers, updatedUser)
        /\ NoteWrite(p, updatedUser.vals["id"])
    /\ pc' = [pc EXCEPT ![p] = "done"]
    /\ res' = [res EXCEPT ![p] = Returned(p)]
    /\ UNCHANGED notUserVars
    /\ UNCHANGED <<fsUsers, clock, act, userId, arg, updates, user, currentUser>>

\* ---------------------------------------------------- sendInboxMessage
Texts == {"hello", "bye"}

\* sendInboxMessage putting the new message behind the others.
NewInbox_Appended(u, newMsg) == ListOf(u, "inbox") \o <<newMsg>>

\* sendInboxMessage, line 155: the new message goes in front.
NewInbox(u, newMsg) == <<newMsg>> \o ListOf(u, "inbox")

\* sendInboxMessage, line 143: the first get is issued.
SendInboxMessage(p) ==
    /\ pc[p] = "idle"
    /\ \E id \in UserIds, text \in Texts :
        /\ act' = [act EXCEPT ![p] = "sendInboxMessage"]
        /\ userId' = [userId EXCEPT ![p] = id]
        /\ arg' = [arg EXCEPT ![p] = [text |-> text]]
    /\ pc' = [pc EXCEPT ![p] = "sendInbox_get"]
    /\ UNCHANGED notUserVars
    /\ UNCHANGED <<rtdbUsers, fsUsers, clock, updates, user, currentUser, res, seen>>

\* sendInboxMessage, lines 143-156: the get resolves; a missing record throws,
\* otherwise the inbox is rebuilt from the snapshot and handed to updateUser.
SendInboxGet(p) ==
    /\ pc[p] = "sendInbox_get"
    /\ IF userId[p] \in DOMAIN rtdbUsers
       THEN \E t2 \in ReadAfter(clock) :
            LET snap == rtdbUsers[userId[p]]
                newMsg == [id |-> <<"msg-", clock>>, text |-> arg[p].text,
                           date |-> ToISOString(t2), read |-> FALSE, type |-> "TEXT"]
            IN /\ user' = [user EXCEPT ![p] = snap]
               /\ arg' = [arg EXCEPT ![p] = [text |-> @.text, newMsg |-> newMsg]]
               /\ updates' = [updates EXCEPT ![p] = Patch([inbox |-> NewInbox(snap, newMsg)])]
               /\ clock' = t2
               /\ pc' = [pc EXCEPT ![p] = "updateUser_get"]
               /\ res' = res
       ELSE /\ Throw(p, <<"User not found">>)
            /\ UNCHANGED <<user, arg, updates, clock>>
    /\ UNCHANGED notUserVars
    /\ UNCHANGED <<rtdbUsers, fsUsers, act, userId, currentUser, seen>>

\* sendInboxMessage, line 143: the get rejects and the rejection propagates.
SendInboxGetRejects(p) ==
    /\ pc[p] = "sendInbox_get"
    /\ Throw(p, <<"get failed">>)
    /\ UNCHANGED notUserVars
    /\ UNCHANGED <<rtdbUsers, fsUsers, clock, act, userId, arg, updates, user, currentUser, seen>>

\* --------------------------------------------------- grantSubscription
Plans == {"WEEKLY", "MONTHLY", "YEARLY", "LIFETIME"}
Levels == {"BASIC", "ULTRA"}

\* grantSubscription, lines 95-100: endDate, <<t>> or <<>> for null.  It is a
\* second reading of the clock, moved to now's day of the month plus the
\* plan's days.
EndDate(plan, now, endRead) ==
    CASE plan = "WEEKLY"  -> <<SetDate(endRead, GetDate(now) + 7)>>
      [] plan = "MONTHLY" -> <<SetDate(endRead, GetDate(now) + 30)>>
      [] plan = "YEARLY"  -> <<SetDate(endRead, GetDate(now) + 365)>>
      [] OTHER            -> <<>>

\* grantSubscription, lines 102-114.
HistoryEntry(plan, level, now, endDate, idTime) ==
    [id |-> <<"grant-", idTime>>, tier |-> plan, level |-> level,
     startDate |-> ToISOString(now),
     endDate |-> IF endDate # <<>> THEN ToISOString(endDate[1]) ELSE <<"LIFETIME">>,
     durationHours |-> 0, price |-> 0, originalPrice |-> 0, isFree |-> TRUE,
     grantSource |-> "ADMIN", grantedBy |-> "AI_AGENT"]

\* grantSubscription, lines 122-129: the patch handed to updateUser.
GrantPatch(plan, level, endDate, newHistory) ==
    LET always == [subscriptionTier |-> plan, subscriptionLevel |-> level,
                   isPremium |-> TRUE, subscriptionHistory |-> newHistory,
                   grantedByAdmin |-> TRUE]
    IN IF endDate # <<>>
       THEN [vals |-> always @@ [subscriptionEndDate |-> ToISOString(endDate[1])], undef |-> {}]
       ELSE [vals |-> always, undef |-> {"subscriptionEndDate"}]

\* grantSubscription, lines 94-116: the clock is read for now, for endDate and
\* for the entry's id, then the get is issued.
GrantSubscription(p) ==
    /\ pc[p] = "idle"
    /\ \E id \in UserIds, plan \in Plans, level \in Levels :
       \E endRead \in ReadAfter(clock) : \E idTime \in ReadAfter(endRead) :
        LET endDate == EndDate(plan, clock, endRead) IN
        /\ act' = [act EXCEPT ![p] = "grantSubscription"]
        /\ userId' = [userId EXCEPT ![p] = id]
        /\ arg' = [arg EXCEPT ![p] =
                     [plan |-> plan, level |-> level, endDate |-> endDate,
                      historyEntry |-> HistoryEntry(plan, level, clock, endDate, idTime)]]
        /\ clock' = idTime
    /\ pc' = [pc EXCEPT ![p] = "grant_get"]
    /\ UNCHANGED notUserVars
    /\ UNCHANGED <<rtdbUsers, fsUsers, updates, user, currentUser, res, seen>>

\* grantSubscription, lines 116-122: the get resolves; a missing record throws,
\* otherwise the new history is built from the snapshot.
GrantGet(p) ==
    /\ pc[p] = "grant_get"
    /\ IF userId[p] \in DOMAIN rtdbUsers
       THEN LET snap == rtdbUsers[userId[p]]
                newHistory == <<arg[p].historyEntry>> \o ListOf(snap, "subscriptionHistory")
            IN /\ user' = [user EXCEPT ![p] = snap]
               /\ updates' = [updates EXCEPT ![p] =
                                GrantPatch(arg[p].plan, arg[p].level, arg[p].endDate, newHistory)]
               /\ pc' = [pc EXCEPT ![p] = "updateUser_get"]
               /\ res' = res
       ELSE /\ Throw(p, <<"User not found">>)
            /\ UNCHANGED <<user, updates>>
    /\ UNCHANGED notUserVars
    /\ UNCHANGED <<rtdbUsers, fsUsers, clock, act, userId, arg, currentUser, seen>>

\* grantSubscription, line 116: the get rejects and the rejection propagates.
GrantGetRejects(p) ==
    /\ pc[p] = "grant_get"
    /\ Throw(p, <<"get failed">>)
    /\ UNCHANGED notUserVars
    /\ UNCHANGED <<rtdbUsers, fsUsers, clock, act, userId, arg, updates, user, currentUser, seen>>

\* ------------------------------------------------------------ deleteUser
\* deleteUser, line 62: deleteDoc is issued.  arg keeps, as history, whether
\* the user was in both stores when the call began.
DeleteUser(p) ==
    /\ pc[p] = "idle"
    /\ \E id \in UserIds :
        /\ userId' = [userId EXCEPT ![p] = id]
        /\ arg' = [arg EXCEPT ![p] =
                     [wasInBoth |-> id \in fsUsers /\ id \in DOMAIN rtdbUsers]]
    /\ act' = [act EXCEPT ![p] = "deleteUser"]
    /\ pc' = [pc EXCEPT ![p] = "deleteUser_deleteDoc"]
    /\ UNCHANGED notUserVars
    /\ UNCHANGED <<rtdbUsers, fsUsers, clock, updates, user, currentUser, res, seen>>

\* deleteUser with a deleteDoc that resolves and deletes nothing.
DeleteDoc_KeepsDocument(p) ==
    /\ pc[p] = "deleteUser_deleteDoc"
    /\ pc' = [pc EXCEPT ![p] = "deleteUser_remove"]
    /\ UNCHANGED notUserVars
    /\ UNCHANGED <<rtdbUsers, fsUsers, clock, act, userId, arg, updates, user, currentUser, res, seen>>

\* deleteUser, lines 62-63: the document is deleted and remove is issued.
DeleteDoc(p) ==
    /\ pc[p] = "deleteUser_deleteDoc"
    /\ fsUsers' = fsUsers \ {userId[p]}
    /\ pc' = [pc EXCEPT ![p] = "deleteUser_remove"]
    /\ UNCHANGED notUserVars
    /\ UNCHANGED <<rtdbUsers, clock, act, userId, arg, updates, user, currentUser, res, seen>>

\* deleteUser, lines 62 and 65-66: deleteDoc rejects.
DeleteDocRejects(p) ==
    /\ pc[p] = "deleteUser_deleteDoc"
    /\ Throw(p, <<"Failed to delete user ", userId[p], ": ", "deleteDoc failed">>)
    /\ UNCHANGED notUserVars
    /\ UNCHANGED <<rtdbUsers, fsUsers, clock, act, userId, arg, updates, user, currentUser, seen>>

\* deleteUser, lines 63-64: the realtime record is removed and the call returns.
DeleteRemove(p) ==
    /\ pc[p] = "deleteUser_remove"
    /\ rtdbUsers' = RemoveUser(rtdbUsers, userId[p])
    /\ NoteWrite(p, userId[p])
    /\ pc' = [pc EXCEPT ![p] = "done"]
    /\ res' = [res EXCEPT ![p] =
                 Ok(<<"User ", userId[p], " deleted successfully from Firestore and RTDB.">>)]
    /\ UNCHANGED notUserVars
    /\ UNCHANGED <<fsUsers, clock, act, userId, arg, updates, user, currentUser>>

\* deleteUser, lines 63 and 65-66: remove rejects, after deleteDoc went through.
DeleteRemoveRejects(p) ==
    /\ pc[p] = "deleteUser_remove"
    /\ Throw(p, <<"Failed to delete user ", userId[p], ": ", "remove failed">>)
    /\ UNCHANGED notUserVars
    /\ UNCHANGED <<rtdbUsers, fsUsers, clock, act, userId, arg, updates, user, currentUser, seen>>

Tick ==
    /\ clock < ClockStart + MaxClock
    /\ clock' = clock + 1
    /\ UNCHANGED notUserVars
    /\ UNCHANGED <<rtdbUsers, fsUsers, pc, act, userId, arg, updates, user, currentUser, res, seen>>

\* -------------------------------------------------------- system_settings
\* What the actions on system_settings leave alone.
notSettingsVars ==
    <<rtdbUsers, fsUsers, redeemCodes, adminCodes, userId, updates, user, currentUser,
      seen, speechVars, voiceVars>>

\* saveSystemSettings(newSettings): system_settings is replaced by the object.
SaveSystemSettingsTo(store, obj) == obj

ToggleKeys ==
    {"maintenanceMode", "isAiEnabled", "isAutoPilotEnabled", "isChatEnabled", "isGameEnabled"}
SettingsPatches == {[noticeText |-> "", isChatEnabled |-> FALSE], [appName |-> "NST"]}

\* An action of the registry that begins with getSettings().
CallWithSettings(p, name, a) ==
    /\ pc[p] = "idle"
    /\ act' = [act EXCEPT ![p] = name]
    /\ arg' = [arg EXCEPT ![p] = a]
    /\ pc' = [pc EXCEPT ![p] = "getSettings"]
    /\ UNCHANGED notSettingsVars
    /\ UNCHANGED <<rtdbSettings, clock, res, settings, newSettings>>

BroadcastMessage(p) ==
    /\ pc[p] = "idle"
    /\ \E message \in {"Exam on Monday"} :
        CallWithSettings(p, "broadcastMessage", [message |-> message])

CreateWeeklyTest(p) ==
    /\ pc[p] = "idle"
    /\ \E name \in {"Test 1"}, subject \in {"Maths"}, questionCount \in {10} :
        CallWithSettings(p, "createWeeklyTest",
            [name |-> name, subject |-> subject, questionCount |-> questionCount])

UpdateSystemSettings(p) ==
    /\ pc[p] = "idle"
    /\ \E upd \in SettingsPatches :
        CallWithSettings(p, "updateSystemSettings", [updates |-> upd])

ToggleSetting(p) ==
    /\ pc[p] = "idle"
    /\ \E key \in ToggleKeys, v \in BOOLEAN :
        CallWithSettings(p, "toggleSetting", [updates |-> (key :> v)])

AddPackage(p) ==
    /\ pc[p] = "idle"
    /\ \E name \in {"Starter"}, price \in {99}, credits \in {100} :
        CallWithSettings(p, "addPackage", [name |-> name, price |-> price, credits |-> credits])

RemovePackage(p) ==
    /\ pc[p] = "idle"
    /\ \E id \in {<<"pkg-", 0>>, <<"pkg-", ClockStart>>} :
        CallWithSettings(p, "removePackage", [id |-> id])

RECURSIVE WithoutPackage(_, _)
\* (settings.packages || []).filter(p => p.id !== id)
WithoutPackage(packages, id) ==
    IF packages = <<>> THEN <<>>
    ELSE IF Head(packages).id # id
         THEN <<Head(packages)>> \o WithoutPackage(Tail(packages), id)
         ELSE WithoutPackage(Tail(packages), id)

\* The object each action hands to saveSystemSettings, from the settings s it
\* fetched; t1 is Date.now() and t2 the new Date() after it.
NewSettings(p, s, t1, t2) ==
    LET a == arg[p] IN
    CASE act[p] = "broadcastMessage" -> [noticeText |-> a.message] @@ s
      [] act[p] = "createWeeklyTest" ->
            LET newTest == [id |-> <<"test-", t1>>, name |-> a.name,
                            description |-> <<"Subject: ", a.subject>>, isActive |-> TRUE,
                            classLevel |-> "10", questions |-> <<>>,
                            totalQuestions |-> a.questionCount, passingScore |-> 40,
                            createdAt |-> ToISOString(t2), durationMinutes |-> 60,
                            selectedSubjects |-> <<a.subject>>]
            IN [weeklyTests |-> ListOf(s, "weeklyTests") \o <<newTest>>] @@ s
      [] act[p] \in {"updateSystemSettings", "toggleSetting"} -> a.updates @@ s
      [] act[p] = "addPackage" ->
            LET newPkg == [id |-> <<"pkg-", t1>>, name |-> a.name, price |-> a.price,
                           credits |-> a.credits]
            IN [packages |-> ListOf(s, "packages") \o <<newPkg>>] @@ s
      [] act[p] = "removePackage" ->
            [packages |-> WithoutPackage(ListOf(s, "packages"), a.id)] @@ s

\* What each action returns once saveSystemSettings has returned.
SettingsSaved(p) ==
    CASE act[p] = "broadcastMessage" -> <<"Broadcast banner updated successfully.">>
      [] act[p] = "createWeeklyTest" ->
            <<"Weekly Test \"", arg[p].name, "\" created (Empty Questions).">>
      [] act[p] \in {"updateSystemSettings", "toggleSetting"} -> <<"Settings updated.">>
      [] act[p] = "addPackage" -> <<"Package ", arg[p].name, " added.">>
      [] act[p] = "removePackage" -> <<"Package ", arg[p].id, " removed.">>

\* The code after `await getSettings()` without its null check.
AfterGetSettings_NoNullCheck(p, s) ==
    /\ settings' = [settings EXCEPT ![p] = s]
    /\ \E t2 \in IF act[p] = "createWeeklyTest" THEN ReadAfter(clock) ELSE {clock} :
        /\ newSettings' = [newSettings EXCEPT ![p] =
                             IF s = NoObj THEN [noticeText |-> "reset"]
                             ELSE NewSettings(p, s, clock, t2)]
        /\ clock' = t2
        /\ pc' = [pc EXCEPT ![p] = "saveSettings"]
        /\ res' = res

\* The code after `await getSettings()`, s being what it returned (NoObj for
\* null): broadcastMessage returns a string when there are no settings, the
\* others throw; with settings, the new object goes to saveSystemSettings.
AfterGetSettings(p, s) ==
    /\ settings' = [settings EXCEPT ![p] = s]
    /\ IF s = NoObj
       THEN /\ pc' = [pc EXCEPT ![p] = "done"]
            /\ res' = [res EXCEPT ![p] =
                         IF act[p] = "broadcastMessage"
                         THEN Ok(<<"Failed to fetch settings.">>)
                         ELSE Err(<<"Settings not found">>)]
            /\ UNCHANGED <<newSettings, clock>>
       ELSE \E t2 \in IF act[p] = "createWeeklyTest" THEN ReadAfter(clock) ELSE {clock} :
            /\ newSettings' = [newSettings EXCEPT ![p] = NewSettings(p, s, clock, t2)]
            /\ clock' = t2
            /\ pc' = [pc EXCEPT ![p] = "saveSettings"]
            /\ res' = res

\* getSettings, lines 52-54: the get resolves, with the object or with nothing.
GetSettings(p) ==
    /\ pc[p] = "getSettings"
    /\ AfterGetSettings(p, rtdbSettings)
    /\ UNCHANGED notSettingsVars
    /\ UNCHANGED <<rtdbSettings, act, arg>>

\* getSettings, line 55: the get rejects and the catch returns null.
GetSettingsRejects(p) ==
    /\ pc[p] = "getSettings"
    /\ AfterGetSettings(p, NoObj)
    /\ UNCHANGED notSettingsVars
    /\ UNCHANGED <<rtdbSettings, act, arg>>

\* saveSystemSettings resolves and the action returns its string.
SaveSystemSettings(p) ==
    /\ pc[p] = "saveSettings"
    /\ rtdbSettings' = SaveSystemSettingsTo(rtdbSettings, newSettings[p])
    /\ pc' = [pc EXCEPT ![p] = "done"]
    /\ res' = [res EXCEPT ![p] = Ok(SettingsSaved(p))]
    /\ UNCHANGED notSettingsVars
    /\ UNCHANGED <<clock, act, arg, settings, newSettings>>

\* ---------------------------------------------------- generateGiftCodes
\* What generateGiftCodes leaves alone.
notGiftVars ==
    <<rtdbUsers, fsUsers, rtdbSettings, userId, updates, user, currentUser, seen,
      settings, newSettings, speechVars, voiceVars>>

\* The 12-character codes Math.random may spell, three of them.
Codes == {"AAAAAAAAAAAA", "K7WQ2MZPHX9B", "ZZZZZZZZZZZZ"}

\* generateGiftCodes, lines 226-239; keys whose value is undefined are left out.
NewGiftCode(code, type, amount, i, t1, t2) ==
    [id |-> <<t1, i>>, code |-> code, type |-> type,
     amount |-> IF type = "CREDITS" THEN amount ELSE 0,
     createdAt |-> ToISOString(t2), isRedeemed |-> FALSE, generatedBy |-> "AI_ADMIN",
     maxUses |-> 1, usedCount |-> 0, redeemedBy |-> <<>>]
    @@ (IF type = "SUBSCRIPTION" THEN [subTier |-> "WEEKLY", subLevel |-> "BASIC"] ELSE NoObj)

\* set(ref(rtdb, `redeem_codes/${code}`), newGiftCode)
SetCode(store, giftCode) == (giftCode.code :> giftCode) @@ store

CodesOf(newCodes) == [i \in 1..Len(newCodes) |-> newCodes[i].code]

\* generateGiftCodes, lines 222-247, from the top of the loop with frame a to
\* the next await: either the next code is built and its set is issued, or the
\* loop is over, the codes are put in front of localStorage's list and the call
\* returns.
GiftLoop(p, a) ==
    IF a.i < a.count
    THEN \E code \in Codes : \E t2 \in ReadAfter(clock) :
            LET giftCode == NewGiftCode(code, a.type, a.amount, a.i, clock, t2) IN
            /\ arg' = [arg EXCEPT ![p] =
                         [a EXCEPT !.newCodes = Append(@, giftCode)]]
            /\ clock' = t2
            /\ pc' = [pc EXCEPT ![p] = "gift_set"]
            /\ UNCHANGED <<adminCodes, res>>
    ELSE /\ adminCodes' = a.newCodes \o adminCodes
         /\ arg' = [arg EXCEPT ![p] = a]
         /\ pc' = [pc EXCEPT ![p] = "done"]
         /\ res' = [res EXCEPT ![p] =
                      Ok(<<a.count, " Gift Codes Generated: ", CodesOf(a.newCodes)>>)]
         /\ clock' = clock

\* generateGiftCodes is called; arg keeps, as history, the codes stored then.
GenerateGiftCodes(p) ==
    /\ pc[p] = "idle"
    /\ act' = [act EXCEPT ![p] = "generateGiftCodes"]
    /\ \E amount \in {50}, count \in 0..MaxCount, type \in {"CREDITS", "SUBSCRIPTION"} :
        GiftLoop(p, [amount |-> amount, count |-> count, type |-> type, i |-> 0,
                     newCodes |-> <<>>, before |-> redeemCodes])
    /\ UNCHANGED notGiftVars
    /\ UNCHANGED redeemCodes

\* generateGiftCodes, line 241: the set resolves and the loop goes on.
GiftSet(p) ==
    /\ pc[p] = "gift_set"
    /\ redeemCodes' = SetCode(redeemCodes, arg[p].newCodes[Len(arg[p].newCodes)])
    /\ GiftLoop(p, [arg[p] EXCEPT !.i = @ + 1])
    /\ UNCHANGED notGiftVars
    /\ act' = act

\* generateGiftCodes, line 241: the set rejects and the call rejects with it.
GiftSetRejects(p) ==
    /\ pc[p] = "gift_set"
    /\ Throw(p, <<"set failed">>)
    /\ UNCHANGED notGiftVars
    /\ UNCHANGED <<redeemCodes, adminCodes, clock, act, arg>>

\* ------------------------------------------------------ speech synthesis
\* What the speech helpers leave alone.
notSpeechVars == <<storeVars, frameVars>>

\* Strings that are searched are sequences of characters; texts are sequences
\* of code points.
HiIN == <<"h", "i", "-", "I", "N">>
EnIN == <<"e", "n", "-", "I", "N">>
EnUS == <<"e", "n", "-", "U", "S">>
Google == <<"G", "o", "o", "g", "l", "e">>
India == <<"I", "n", "d", "i", "a">>

\* String.prototype.includes
Includes(s, sub) ==
    \E i \in 0..(Len(s) - Len(sub)) : SubSeq(s, i + 1, i + Len(sub)) = sub

RECURSIVE VoicesIn(_)
VoicesIn(voices) ==
    IF voices = <<>> THEN {} ELSE {Head(voices)} \cup VoicesIn(Tail(voices))

\* Array.prototype.find, NoObj for undefined; good holds the voices the
\* callback accepts.
Find(voices, good) ==
    IF \E i \in 1..Len(voices) : voices[i] \in good
    THEN voices[CHOOSE i \in 1..Len(voices) :
                    voices[i] \in good /\ \A j \in 1..(i - 1) : voices[j] \notin good]
    ELSE NoObj

IsNull(v) == DOMAIN v = {}
\* a || b on voices
OrElse(a, b) == IF IsNull(a) THEN b ELSE a

GoogleHindi == [name |-> Google \o <<" ", "h", "i">>, lang |-> HiIN]
Lekha == [name |-> <<"L", "e", "k", "h", "a">>, lang |-> HiIN]
Heera == [name |-> <<"H", "e", "e", "r", "a">>, lang |-> EnIN]
GoogleUS == [name |-> Google \o <<" ", "U", "S">>, lang |-> EnUS]
Veena == [name |-> <<"V", "e", "e", "n", "a", " ">> \o India, lang |-> <<>>]

\* The lists the browser may load.
LoadedVoices == {<<GoogleUS, Lekha, GoogleHindi, Heera>>, <<GoogleUS, Veena>>}

\* "Hi" and two Devanagari letters.
SpeakTexts == {<<72, 105>>, <<2344, 2350>>}

\* speakText, line 49: /[ऀ-ॿ]/.test(text)
IsHindi(text) == \E i \in 1..Len(text) : text[i] >= 2304 /\ text[i] <= 2431

IsHi(v) == Includes(v.lang, <<"h", "i">>)
IsHiGoogle(v) == IsHi(v) /\ Includes(v.name, Google)
IsEnIN(v) == v.lang = EnIN \/ Includes(v.lang, EnIN)
IsEnINGoogle(v) == IsEnIN(v) /\ Includes(v.name, Google)
IsIndia(v) == Includes(v.name, India)

\* speakText, lines 47-64: the voice spoken with.
SelectVoice(text, voice, voices) ==
    LET all == VoicesIn(voices) IN
    IF ~IsNull(voice) THEN voice
    ELSE IF IsHindi(text)
         THEN OrElse(Find(voices, {v \in all : IsHiGoogle(v)}),
                     Find(voices, {v \in all : IsHi(v)}))
         ELSE OrElse(Find(voices, {v \in all : IsEnINGoogle(v)}),
                     OrElse(Find(voices, {v \in all : IsEnIN(v)}),
                            Find(voices, {v \in all : IsIndia(v)})))

\* speakText, lines 44-73: the utterance handed to speak. The language set at
\* lines 55 and 62 is overwritten at line 68.
Utterance(text, voice, rate, lang, voices) ==
    LET v == SelectVoice(text, voice, voices) IN
    [text |-> text, voice |-> v,
     lang |-> IF IsNull(v) \/ v.lang = <<>> THEN lang ELSE v.lang,
     rate |-> rate, pitch |-> 1]

\* speechSynthesis.cancel() and speechSynthesis.speak(u)
Cancel(q) == <<>>
Speak(q, u) == Append(q, u)

\* speakText without line 42.
SpeakText_NoCancel ==
    \E text \in SpeakTexts, voice \in {NoObj} \cup VoicesIn(voiceList),
       rate \in {1, 2}, lang \in {EnUS, HiIN} :
        LET u == Utterance(text, voice, rate, lang, voiceList) IN
        /\ queue' = IF supported THEN Speak(queue, u) ELSE queue
        /\ lastCall' = [kind |-> "speak", utterance |-> u, found |-> Len(queue)]
        /\ UNCHANGED <<notSpeechVars, voiceVars>>

\* speakText, lines 35-76; lastCall notes how many utterances the call found queued.
SpeakText ==
    \E text \in SpeakTexts, voice \in {NoObj} \cup VoicesIn(voiceList),
       rate \in {1, 2}, lang \in {EnUS, HiIN} :
        LET u == Utterance(text, voice, rate, lang, voiceList) IN
        /\ queue' = IF supported THEN Speak(Cancel(queue), u) ELSE queue
        /\ lastCall' = [kind |-> "speak", utterance |-> u, found |-> Len(queue)]
        /\ UNCHANGED <<notSpeechVars, voiceVars>>

\* stopSpeech, lines 78-82
StopSpeech ==
    /\ queue' = IF supported THEN Cancel(queue) ELSE queue
    /\ lastCall' = [kind |-> "stop", found |-> Len(queue)]
    /\ UNCHANGED <<notSpeechVars, voiceVars>>

\* The browser finishes speaking the utterance at the head of the queue.
UtteranceEnds ==
    /\ queue # <<>>
    /\ queue' = Tail(queue)
    /\ UNCHANGED <<notSpeechVars, voiceVars, lastCall>>

\* ----------------------------------------------------- getAvailableVoices
\* The promise's resolve function: the first call settles it, later calls do nothing.
Resolve(p, v) ==
    /\ promise' = [promise EXCEPT ![p] = "resolved"]
    /\ value' = IF promise[p] = "pending" \/ promise[p] = "none"
                THEN [value EXCEPT ![p] = v] ELSE value

\* getAvailableVoices, lines 1-24
GetAvailableVoices(p) ==
    /\ promise[p] = "none"
    /\ IF ~supported
       THEN Resolve(p, <<>>) /\ UNCHANGED <<onvoiceschanged, timers>>
       ELSE IF Len(voiceList) > 0
       THEN Resolve(p, voiceList) /\ UNCHANGED <<onvoiceschanged, timers>>
       ELSE /\ promise' = [promise EXCEPT ![p] = "pending"]
            /\ onvoiceschanged' = p
            /\ timers' = timers \cup {p}
            /\ value' = value
    /\ UNCHANGED <<notSpeechVars, speechVars, supported, voiceList>>

\* The browser loads a voice list and fires voiceschanged: the handler that is
\* installed, lines 14-17, runs.
VoicesChanged ==
    /\ supported
    /\ \E voices \in LoadedVoices :
        /\ voiceList' = voices
        /\ IF onvoiceschanged # 0
           THEN Resolve(onvoiceschanged, voices)
           ELSE UNCHANGED <<promise, value>>
    /\ UNCHANGED <<notSpeechVars, speechVars, supported, onvoiceschanged, timers>>

\* The fallback timer of call p fires, lines 20-22.
TimerFires(p) ==
    /\ p \in timers
    /\ timers' = timers \ {p}
    /\ Resolve(p, voiceList)
    /\ UNCHANGED <<notSpeechVars, speechVars, supported, voiceList, onvoiceschanged>>

\* ------------------------------------------------------------------ Init
Asha == [id |-> "u1", name |-> "Asha", credits |-> 0]
Ravi == [id |-> "u2", name |-> "Ravi", credits |-> 0]
Welcome == [id |-> <<"msg-", 0>>, text |-> "welcome", date |-> ToISOString(0),
            read |-> TRUE, type |-> "TEXT"]
Trial == [id |-> <<"grant-", 0>>, tier |-> "WEEKLY", level |-> "BASIC",
          startDate |-> ToISOString(0), endDate |-> ToISOString(7 * TicksPerDay),
          durationHours |-> 0, price |-> 0, originalPrice |-> 0, isFree |-> TRUE,
          grantSource |-> "ADMIN", grantedBy |-> "AI_AGENT"]
\* u1 after an earlier message and an earlier grant.
AshaSubscribed ==
    Asha @@ [inbox |-> <<Welcome>>, subscriptionTier |-> "WEEKLY", subscriptionLevel |-> "BASIC",
             subscriptionEndDate |-> ToISOString(7 * TicksPerDay), isPremium |-> TRUE,
             subscriptionHistory |-> <<Trial>>, grantedByAdmin |-> TRUE]
\* The stores an invocation may find: both users plain, u2 not registered, or
\* u1 with an inbox and a subscription.
InitStores ==
    {("u1" :> Asha) @@ ("u2" :> Ravi), ("u1" :> Asha), ("u1" :> AshaSubscribed)}

InitInvocations ==
    /\ clock = ClockStart
    /\ pc = [p \in Procs |-> "idle"]
    /\ act = [p \in Procs |-> "none"]
    /\ userId = [p \in Procs |-> "none"]
    /\ arg = [p \in Procs |-> NoObj]
    /\ updates = [p \in Procs |-> NoPatch]
    /\ user = [p \in Procs |-> NoObj]
    /\ currentUser = [p \in Procs |-> NoObj]
    /\ res = [p \in Procs |-> NoRes]
    /\ seen = [p \in Procs |-> {}]

InitSettings ==
    /\ settings = [p \in Procs |-> NoObj]
    /\ newSettings = [p \in Procs |-> NoObj]

InitSpeech ==
    /\ queue = <<>>
    /\ lastCall = [kind |-> "none"]

InitVoices ==
    /\ promise = [p \in Procs |-> "none"]
    /\ value = [p \in Procs |-> <<>>]
    /\ onvoiceschanged = 0
    /\ timers = {}

\* Everything but the users is at rest.
Init ==
    /\ rtdbUsers \in InitStores
    /\ fsUsers = DOMAIN rtdbUsers
    /\ InitInvocations
    /\ rtdbSettings = NoObj
    /\ InitSettings
    /\ redeemCodes = NoObj
    /\ adminCodes = <<>>
    /\ supported = TRUE
    /\ voiceList = <<>>
    /\ InitSpeech
    /\ InitVoices

\* The settings an invocation may find: none, or an object with a banner, a
\* flag and one package.
Settings0 ==
    [noticeText |-> "Welcome", maintenanceMode |-> FALSE,
     packages |-> <<[id |-> <<"pkg-", 0>>, name |-> "Basic", price |-> 49, credits |-> 50]>>]

InitWithSettings ==
    /\ rtdbUsers = ("u1" :> Asha)
    /\ fsUsers = DOMAIN rtdbUsers
    /\ InitInvocations
    /\ rtdbSettings \in {NoObj, Settings0}
    /\ InitSettings
    /\ redeemCodes = NoObj
    /\ adminCodes = <<>>
    /\ supported = TRUE
    /\ voiceList = <<>>
    /\ InitSpeech
    /\ InitVoices

\* A code redeemed long ago.
OldCode ==
    [id |-> <<0, 0>>, code |-> "AAAAAAAAAAAA", type |-> "CREDITS", amount |-> 10,
     createdAt |-> ToISOString(0), isRedeemed |-> TRUE, generatedBy |-> "AI_ADMIN",
     maxUses |-> 1, usedCount |-> 1, redeemedBy |-> <<"u1">>]

InitWithCodes ==
    /\ rtdbUsers = ("u1" :> Asha)
    /\ fsUsers = DOMAIN rtdbUsers
    /\ InitInvocations
    /\ rtdbSettings = NoObj
    /\ InitSettings
    /\ redeemCodes \in {NoObj, ("AAAAAAAAAAAA" :> OldCode)}
    /\ adminCodes = <<>>
    /\ supported = TRUE
    /\ voiceList = <<>>
    /\ InitSpeech
    /\ InitVoices

\* Speech synthesis may be missing, and the voice list may be loaded already.
InitWithSpeech ==
    /\ rtdbUsers = ("u1" :> Asha)
    /\ fsUsers = DOMAIN rtdbUsers
    /\ InitInvocations
    /\ rtdbSettings = NoObj
    /\ InitSettings
    /\ redeemCodes = NoObj
    /\ adminCodes = <<>>
    /\ supported \in BOOLEAN
    /\ voiceList \in IF supported THEN {<<>>} \cup LoadedVoices ELSE {<<>>}
    /\ InitSpeech
    /\ InitVoices

\* ------------------------------------------------- speakText and stopSpeech
NextSpeech ==
    \/ SpeakText
    \/ StopSpeech
    \/ UtteranceEnds
    \/ VoicesChanged

SpecSpeech == InitWithSpeech /\ [][NextSpeech]_vars

\* ------------------------------------------ getAvailableVoices, concurrently
NextVoices ==
    \/ \E p \in Procs : GetAvailableVoices(p)
    \/ VoicesChanged
    \/ \E p \in Procs : TimerFires(p)

\* A timer that is set fires: the event loop runs every due callback.
SpecVoices ==
    /\ InitWithSpeech
    /\ [][NextVoices]_vars
    /\ \A p \in Procs : WF_vars(TimerFires(p))

\* ------------------------------------------------------ generateGiftCodes
NextGift ==
    \E p \in Procs :
        \/ GenerateGiftCodes(p)
        \/ GiftSet(p)
        \/ GiftSetRejects(p)

SpecGift == InitWithCodes /\ [][NextGift]_vars

\* ------------------------------------- the actions on system_settings
NextSettings ==
    \E p \in Procs :
        \/ BroadcastMessage(p)
        \/ CreateWeeklyTest(p)
        \/ UpdateSystemSettings(p)
        \/ ToggleSetting(p)
        \/ AddPackage(p)
        \/ RemovePackage(p)
        \/ GetSettings(p)
        \/ GetSettingsRejects(p)
        \/ SaveSystemSettings(p)

SpecSettings == InitWithSettings /\ [][NextSettings]_vars

\* ------------------------------------------------ updateUser, concurrently
NextUpdate ==
    \E p \in Procs :
        \/ UpdateUser(p)
        \/ UpdateUserGet(p)
        \/ UpdateUserGetRejects(p)
        \/ UpdateUserSave(p)

SpecUpdate == Init /\ [][NextUpdate]_vars

\* ---------------------------------------------- sendInboxMessage, concurrently
NextInbox ==
    \/ Tick
    \/ \E p \in Procs :
        \/ SendInboxMessage(p)
        \/ SendInboxGet(p)
        \/ SendInboxGetRejects(p)
        \/ UpdateUserGet(p)
        \/ UpdateUserGetRejects(p)
        \/ UpdateUserSave(p)

SpecInbox == Init /\ [][NextInbox]_vars

\* --------------------------------------------- grantSubscription, concurrently
NextGrant ==
    \/ Tick
    \/ \E p \in Procs :
        \/ GrantSubscription(p)
        \/ GrantGet(p)
        \/ GrantGetRejects(p)
        \/ UpdateUserGet(p)
        \/ UpdateUserGetRejects(p)
        \/ UpdateUserSave(p)

SpecGrant == Init /\ [][NextGrant]_vars

\* ------------------------------------------------------ deleteUser, concurrently
NextDelete ==
    \E p \in Procs :
        \/ DeleteUser(p)
        \/ DeleteDoc(p)
        \/ DeleteDocRejects(p)
        \/ DeleteRemove(p)
        \/ DeleteRemoveRejects(p)

SpecDelete == Init /\ [][NextDelete]_vars

\* ------------------- every action that writes a user, beside a deleteUser
NextUsers ==
    \E p \in Procs :
        \/ UpdateUser(p)
        \/ BanUser(p)
        \/ UnbanUser(p)
        \/ PromoteSubAdmin(p)
        \/ DemoteSubAdmin(p)
        \/ GrantSubscription(p)
        \/ GrantGet(p)
        \/ GrantGetRejects(p)
        \/ SendInboxMessage(p)
        \/ SendInboxGet(p)
        \/ SendInboxGetRejects(p)
        \/ UpdateUserGet(p)
        \/ UpdateUserGetRejects(p)
        \/ UpdateUserSave(p)
        \/ DeleteUser(p)
        \/ DeleteDoc(p)
        \/ DeleteDocRejects(p)
        \/ DeleteRemove(p)
        \/ DeleteRemoveRejects(p)

SpecUsers == Init /\ [][NextUsers]_vars

\* The step in which invocation p's updateUser saves and returns.
Saves(p) == pc[p] = "updateUser_save" /\ pc'[p] = "done"

C2_LostUpdateReached ==
    \E p, q \in Procs :
        /\ p # q
        /\ pc[p] = "done" /\ pc[q] = "done" /\ res[p].ok /\ res[q].ok
        /\ act[p] = "updateUser" /\ act[q] = "updateUser"
        /\ userId[p] = userId[q] /\ p \in seen[q]
        /\ userId[q] \in DOMAIN rtdbUsers
        /\ \E k \in DOMAIN updates[p].vals :
              /\ k \notin DOMAIN updates[q].vals
              /\ ~ (Has(rtdbUsers[userId[q]], k) /\ rtdbUsers[userId[q]][k] = updates[p].vals[k])

\* ----------------------------------------------------------------- C3
\* The message an invocation of sendInboxMessage built.
NewMsg(p) == arg[p].newMsg
Count(seq, x) == Cardinality({i \in 1..Len(seq) : seq[i] = x})

\* C3: two sendInboxMessage calls for the same user are not serialized: when
\* the later writer q took its snapshot before the earlier writer p wrote, q's
\* write leaves the inbox equal to q's message in front of q's stale snapshot,
\* one message longer than that snapshot, with nothing added by p, although
\* both calls return "Message sent to ...".
C3_InboxBuiltFromStaleSnapshot ==
    [][\A p, q \in Procs :
        (/\ p # q
         /\ Saves(q)
         /\ act[p] = "sendInboxMessage" /\ act[q] = "sendInboxMessage"
         /\ pc[p] = "done" /\ res[p].ok
         /\ userId[p] = userId[q]
         /\ p \in seen[q]
         /\ NewMsg(p) # NewMsg(q))
        => LET u == userId[q]
               stale == ListOf(user[q], "inbox")
           IN /\ res'[q].ok /\ res'[q].msg[1] = "Message sent to "
              /\ res[p].msg[1] = "Message sent to "
              /\ u \in DOMAIN rtdbUsers'
              /\ rtdbUsers'[u]["inbox"] = <<NewMsg(q)>> \o stale
              /\ Len(rtdbUsers'[u]["inbox"]) = Len(stale) + 1
              /\ Count(rtdbUsers'[u]["inbox"], NewMsg(p)) = Count(stale, NewMsg(p))
      ]_vars

\* Both calls have returned their success string and the inbox holds q's
\* message but not p's.
C3_MessageLost ==
    \E p, q \in Procs :
        /\ p # q
        /\ act[p] = "sendInboxMessage" /\ act[q] = "sendInboxMessage"
        /\ pc[p] = "done" /\ pc[q] = "done" /\ res[p].ok /\ res[q].ok
        /\ userId[p] = userId[q] /\ p \in seen[q]
        /\ userId[q] \in DOMAIN rtdbUsers
        /\ LET inbox == rtdbUsers[userId[q]]["inbox"] IN
              /\ Count(inbox, NewMsg(q)) = 1
              /\ Count(inbox, NewMsg(p)) = 0

\* ----------------------------------------------------------------- C4
WritesThroughUpdateUser ==
    {"updateUser", "banUser", "unbanUser", "promoteSubAdmin", "demoteSubAdmin",
     "grantSubscription", "sendInboxMessage"}
ReadingUser(p) == pc[p] \in {"updateUser_get", "grant_get", "sendInbox_get"}
LastOf(m) == m[Len(m)]

\* C4: for every action that writes a user through updateUser, a read of
\* users/<userId> that finds no record ends the call with an error, "User not
\* found" (wrapped as "Failed to update user: User not found" when it is
\* updateUser's own read), and the step leaves both user stores as they were.
C4_MissingUserRejected ==
    [][\A p \in Procs :
        (/\ act[p] \in WritesThroughUpdateUser
         /\ ReadingUser(p)
         /\ userId[p] \notin DOMAIN rtdbUsers
         /\ pc'[p] # pc[p])
        => /\ pc'[p] = "done"
           /\ ~ res'[p].ok
           /\ rtdbUsers' = rtdbUsers
           /\ fsUsers' = fsUsers
           /\ LastOf(res'[p].msg) \in {"User not found", "get failed"}
           /\ LastOf(res'[p].msg) = "User not found" =>
                res'[p].msg = IF pc[p] = "updateUser_get"
                              THEN <<"Failed to update user: ", "User not found">>
                              ELSE <<"User not found">>
      ]_vars

\* Each kind of call has been rejected for a user that is not in the store,
\* at its own read or at updateUser's.
C4_MissingUserReached ==
    \E p, q \in Procs :
        /\ p # q
        /\ act[p] = "updateUser" /\ pc[p] = "done"
        /\ res[p].msg = <<"Failed to update user: ", "User not found">>
        /\ act[q] = "sendInboxMessage" /\ pc[q] = "done"
        /\ res[q].msg = <<"User not found">>
        /\ userId[p] \notin DOMAIN rtdbUsers /\ userId[q] \notin DOMAIN rtdbUsers

\* ----------------------------------------------------------------- C8
FromISOString(s) == s[2]
PlanDays(plan) ==
    CASE plan = "WEEKLY" -> 7 [] plan = "MONTHLY" -> 30 [] plan = "YEARLY" -> 365 [] OTHER -> 0

\* What C8 says of the record new that a grant saved over the record old,
\* dates compared by calendar day.
GrantedAsClaimed(p, old, new) ==
    LET plan == arg[p].plan
        entry == Head(new["subscriptionHistory"])
    IN /\ new["isPremium"] = TRUE /\ new["grantedByAdmin"] = TRUE
       /\ new["subscriptionTier"] = plan /\ new["subscriptionLevel"] = arg[p].level
       /\ new["subscriptionHistory"] = <<entry>> \o ListOf(old, "subscriptionHistory")
       /\ entry.grantSource = "ADMIN" /\ entry.tier = plan /\ entry.level = arg[p].level
       /\ IF plan = "LIFETIME"
          THEN /\ ~ Has(new, "subscriptionEndDate")
               /\ entry.endDate = <<"LIFETIME">>
          ELSE /\ Has(new, "subscriptionEndDate")
               /\ new["subscriptionEndDate"] = entry.endDate
               /\ DayOf(FromISOString(entry.endDate))
                    = DayOf(FromISOString(entry.startDate)) + PlanDays(plan)

\* The step in which a grant saves, no other writer having come between its
\* first read and this write.
GrantSavesAlone(p) ==
    /\ Saves(p) /\ act[p] = "grantSubscription" /\ res'[p].ok
    /\ userId[p] \in DOMAIN rtdbUsers
    /\ rtdbUsers[userId[p]] = user[p] /\ currentUser[p] = user[p]

\* C8: a successful grantSubscription(userId, plan, level) with no other
\* writer in between leaves the user premium, granted by admin, on the given
\* tier and level, with one new ADMIN entry in front of the previous history;
\* the end date is 7, 30 or 365 days after the grant day, and a LIFETIME grant
\* leaves no subscriptionEndDate and an entry that ends 'LIFETIME'.
C8_GrantAsClaimed ==
    [][\A p \in Procs :
        GrantSavesAlone(p) => GrantedAsClaimed(p, user[p], rtdbUsers'[userId[p]])
      ]_vars

\* ---------------------------------------------------------------- C10
DeletedAlone(p) ==
    /\ act[p] = "deleteUser" /\ pc[p] = "done"
    /\ arg[p].wasInBoth
    /\ \A q \in Procs \ {p} : userId[q] # userId[p]

\* C10 as claimed: for a user that was in both stores, after deleteUser the
\* stores agree: the user is in neither when the call returned its success
\* string and in both when it threw.
C10_AllOrNothing ==
    \A p \in Procs :
        DeletedAlone(p) =>
            IF res[p].ok
            THEN userId[p] \notin fsUsers /\ userId[p] \notin DOMAIN rtdbUsers
            ELSE userId[p] \in fsUsers /\ userId[p] \in DOMAIN rtdbUsers

\* C10 as the code has it: the user is in neither store when the call
\* returned its success string; when it threw, the realtime record is still
\* there, and the document is there only if it was deleteDoc that failed: a
\* failure of remove leaves the user out of the document store and in the
\* realtime store.
C10_DeleteOutcome ==
    \A p \in Procs :
        DeletedAlone(p) =>
            IF res[p].ok
            THEN userId[p] \notin fsUsers /\ userId[p] \notin DOMAIN rtdbUsers
            ELSE /\ userId[p] \in DOMAIN rtdbUsers
                 /\ userId[p] \in fsUsers <=> LastOf(res[p].msg) = "deleteDoc failed"

\* A deleteUser threw after its deleteDoc went through: the stores disagree.
C10_HalfDeleted ==
    \E p \in Procs :
        /\ DeletedAlone(p) /\ ~ res[p].ok
        /\ LastOf(res[p].msg) = "remove failed"
        /\ userId[p] \notin fsUsers /\ userId[p] \in DOMAIN rtdbUsers

\* ----------------------------------------------------------------- C5
SettingsWriters ==
    {"broadcastMessage", "createWeeklyTest", "updateSystemSettings", "toggleSetting",
     "addPackage", "removePackage"}

\* C5: when system_settings is absent or its read fails, getSettings gives
\* null and the action ends at once without writing system_settings:
\* broadcastMessage returns "Failed to fetch settings." and the others reject
\* with "Settings not found"; system_settings is written only by an invocation
\* that fetched settings.
C5_NoSettingsNoWrite ==
    [][/\ \A p \in Procs :
            (pc[p] = "getSettings" /\ pc'[p] # "getSettings" /\ act[p] \in SettingsWriters)
            => /\ rtdbSettings = NoObj => pc'[p] = "done"
               /\ rtdbSettings' = rtdbSettings
               /\ pc'[p] = "done" =>
                    /\ settings'[p] = NoObj
                    /\ res'[p] = IF act[p] = "broadcastMessage"
                                 THEN Ok(<<"Failed to fetch settings.">>)
                                 ELSE Err(<<"Settings not found">>)
               /\ pc'[p] # "done" => settings'[p] # NoObj /\ settings'[p] = rtdbSettings
       /\ rtdbSettings' # rtdbSettings =>
            \E p \in Procs : pc[p] = "saveSettings" /\ settings[p] # NoObj
      ]_vars

\* With no system_settings, a broadcastMessage has returned its string and
\* another action has rejected.
C5_NoSettingsReached ==
    /\ rtdbSettings = NoObj
    /\ \E p, q \in Procs :
        /\ act[p] = "broadcastMessage" /\ pc[p] = "done"
        /\ res[p] = Ok(<<"Failed to fetch settings.">>)
        /\ act[q] \in SettingsWriters \ {"broadcastMessage"} /\ pc[q] = "done"
        /\ res[q] = Err(<<"Settings not found">>)

\* ----------------------------------------------------------------- C9
Unredeemed(r) ==
    r.isRedeemed = FALSE /\ r.usedCount = 0 /\ r.maxUses = 1 /\ r.redeemedBy = <<>>

\* C9: a generateGiftCodes(amount, count, type) call that has returned
\* "<count> Gift Codes Generated", no other call running beside it, has added
\* exactly count records under redeem_codes, one per code it lists, each
\* unredeemed and with amount = amount for CREDITS and 0 for SUBSCRIPTION, and
\* has overwritten neither a record that was there before the call nor one it
\* wrote itself.
C9_CountNewCodes ==
    \A p \in Procs :
        (/\ act[p] = "generateGiftCodes" /\ pc[p] = "done" /\ res[p].ok
         /\ \A q \in Procs \ {p} : pc[q] = "idle")
        => LET a == arg[p] IN
              /\ Len(a.newCodes) = a.count
              /\ Cardinality(DOMAIN redeemCodes \ DOMAIN a.before) = a.count
              /\ \A i \in 1..Len(a.newCodes) :
                    LET c == a.newCodes[i].code IN
                    /\ c \in DOMAIN redeemCodes
                    /\ Unredeemed(redeemCodes[c])
                    /\ redeemCodes[c].amount = IF a.type = "CREDITS" THEN a.amount ELSE 0
              /\ \A c \in DOMAIN a.before : redeemCodes[c] = a.before[c]
              /\ \A i, j \in 1..Len(a.newCodes) :
                    i # j => a.newCodes[i].code # a.newCodes[j].code

\* ----------------------------------------------------------------- C6
\* C6: with speech synthesis supported, after any sequence of speakText and
\* stopSpeech calls the utterance queue holds at most one utterance, and what
\* it holds is the utterance of the latest speakText; after a stopSpeech it
\* holds none.
C6_OnlyLatestUtterance ==
    supported =>
        /\ Len(queue) <= 1
        /\ queue # <<>> => lastCall.kind = "speak" /\ queue = <<lastCall.utterance>>
        /\ lastCall.kind = "stop" => queue = <<>>

\* A speakText that found an utterance queued and left only its own.
C6_SpeakReplacedQueued ==
    /\ supported
    /\ lastCall.kind = "speak"
    /\ lastCall.found = 1
    /\ queue = <<lastCall.utterance>>

\* ----------------------------------------------------------------- C7
\* A pending promise is resolved in the end.
C7_Resolves ==
    \A p \in Procs : (promise[p] = "pending") ~> (promise[p] = "resolved")

\* Unsupported, or with voices loaded, the call returns a resolved promise.
C7_AtOnce ==
    [][\A p \in Procs :
        (promise[p] = "none" /\ promise'[p] # "none" /\ (~supported \/ voiceList # <<>>))
        => promise'[p] = "resolved"
           /\ value'[p] = IF supported THEN voiceList ELSE <<>>]_vars

\* A voiceschanged event resolves every pending promise, and a call's timer its own.
C7_OnEventOrTimer ==
    [][\A p \in Procs :
        (promise[p] = "pending" /\ (VoicesChanged \/ TimerFires(p)))
        => promise'[p] = "resolved" /\ value'[p] = voiceList']_vars

\* A resolved promise keeps its value.
C7_Fixed ==
    [][\A p \in Procs :
        promise[p] = "resolved" => promise'[p] = "resolved" /\ value'[p] = value[p]]_vars

\* C7: the promise of every getAvailableVoices call resolves: at once with an
\* empty list when speech synthesis is unsupported, at once with the voice list
\* when that is non-empty, and otherwise at the first voiceschanged event or
\* the firing of its fallback timer, whichever comes first; once resolved, its
\* value never changes.
C7_ResolvesOnFirstEventOrTimer ==
    C7_Resolves /\ C7_AtOnce /\ C7_OnEventOrTimer /\ C7_Fixed

====
